---- MODULE Spec2Model ----
(***************************************************************************)
(* Verifiable secret sharing (vsss-rs): the Pedersen dealer, the Feldman   *)
(* verifier and the serde codec of variable-length element vectors.        *)
(*                                                                         *)
(* The backend is instantiated with the prime field F = Z_Q and the        *)
(* prime-order group G = (Z_Q, +), scalar multiplication being             *)
(* multiplication mod Q.  Field elements are encoded in FieldBytes bytes   *)
(* little-endian, group elements in GroupBytes bytes (a tag byte followed  *)
(* by the big-endian value).                                               *)
(***************************************************************************)
EXTENDS Integers, Sequences, FiniteSets, TLC

---------------------------------------------------------------------------
(* Bounds of the model *)

\* largest threshold T and share count N the dealer is instantiated with
MaxT == 3
MaxN == 3
\* number of distinct 32-byte seeds the caller's RNG can deliver
NumSeeds == 2
\* longest commitment vector of a free-standing FeldmanVerifier
MaxCommitments == 2
\* longest element vector handed to the codec
MaxLen == 2

---------------------------------------------------------------------------
(* The backend: F, G and their canonical encodings *)

\* modulus of the prime field F, and order of the group G
Q == 257
\* F::Repr length (S, the number of bytes used to represent F)
FieldBytes == 32
\* G::Repr length
GroupBytes == 33
\* seed length of ChaChaRng
SeedLen == 32
\* uint_zigzag::Uint::MAX_BYTES
MAX_BYTES == 19

F == 0..(Q - 1)
G == 0..(Q - 1)

FAdd(a, b) == (a + b) % Q
FMul(a, b) == (a * b) % Q
\* F::one()
FOne == 1
\* F::from(u64)
FFrom(n) == n % Q

\* G::default() / the identity of G
GIdentity == 0
\* G::generator()
GGenerator == 3
GAdd(p, q) == (p + q) % Q
GNeg(p) == (Q - p) % Q
\* ScalarMul<F>: p * s
GMul(p, s) == (p * s) % Q
\* Group::is_identity
is_identity(p) == p = GIdentity

Zeros(n) == [i \in 1..n |-> 0]

\* PrimeField::to_repr: FieldBytes bytes, little-endian
to_repr(f) == [i \in 1..FieldBytes |-> IF i = 1 THEN f % 256
                                        ELSE IF i = 2 THEN f \div 256 ELSE 0]

\* PrimeField::from_repr: None unless the bytes are the canonical encoding
from_repr(r) ==
    IF /\ Len(r) = FieldBytes
       /\ \A i \in 3..FieldBytes : r[i] = 0
       /\ r[1] + 256 * r[2] < Q
    THEN [some |-> TRUE, val |-> r[1] + 256 * r[2]]
    ELSE [some |-> FALSE, val |-> 0]

\* GroupEncoding::to_bytes: tag byte 2, then the value big-endian
to_bytes(p) == [i \in 1..GroupBytes |-> IF i = 1 THEN 2
                                         ELSE IF i = GroupBytes THEN p % 256
                                         ELSE IF i = GroupBytes - 1 THEN p \div 256
                                         ELSE 0]

\* GroupEncoding::from_bytes
from_bytes(r) ==
    IF /\ Len(r) = GroupBytes
       /\ r[1] = 2
       /\ \A i \in 2..(GroupBytes - 2) : r[i] = 0
       /\ r[GroupBytes] + 256 * r[GroupBytes - 1] < Q
    THEN [some |-> TRUE, val |-> r[GroupBytes] + 256 * r[GroupBytes - 1]]
    ELSE [some |-> FALSE, val |-> 0]

\* util::bytes_to_field
bytes_to_field(bytes) == from_repr(bytes)
\* util::bytes_to_group
bytes_to_group(bytes) == from_bytes(bytes)

None == [some |-> FALSE, val |-> 0]
Some(x) == [some |-> TRUE, val |-> x]
\* Option::unwrap_or_else
unwrap_or_else(o, d) == IF o.some THEN o.val ELSE d

---------------------------------------------------------------------------
(* Shares and the Feldman verifier *)

\* Share<S>: identifier byte and S value bytes
Share(id, value) == [identifier |-> id, value |-> value]

\* the loop of FeldmanVerifier::verify over commitments[1..]: i is the
\* running power of x, rhs the running sum
RECURSIVE verify_loop(_, _, _, _, _)
verify_loop(commitments, idx, x, i, rhs) ==
    IF idx > Len(commitments) THEN rhs
    ELSE LET i2 == FMul(i, x)
         IN verify_loop(commitments, idx + 1, x, i2,
                        GAdd(rhs, GMul(commitments[idx], i2)))

\* verify with the first commitment left out of the sum
verify_skips_c0(verifier, share) ==
    LET s == bytes_to_field(share.value) IN
    IF ~s.some THEN FALSE
    ELSE LET x == FFrom(share.identifier)
             rhs == verify_loop(verifier.commitments, 2, x, FOne, GIdentity)
             lhs == GMul(GNeg(verifier.generator), s.val)
         IN is_identity(GAdd(lhs, rhs))

\* verify comparing only the low byte of the share value
verify_low_byte(verifier, share) ==
    LET s == bytes_to_field(share.value) IN
    IF ~s.some THEN FALSE
    ELSE LET x == FFrom(share.identifier)
             rhs == verify_loop(verifier.commitments, 2, x, FOne,
                                verifier.commitments[1])
             lhs == GMul(GNeg(verifier.generator), s.val % 256)
         IN is_identity(GAdd(lhs, rhs))

\* FeldmanVerifier::verify
verify(verifier, share) ==
    LET s == bytes_to_field(share.value) IN
    IF ~s.some THEN FALSE
    ELSE LET x == FFrom(share.identifier)
             rhs == verify_loop(verifier.commitments, 2, x, FOne,
                                verifier.commitments[1])
             lhs == GMul(GNeg(verifier.generator), s.val)
             res == GAdd(lhs, rhs)
         IN is_identity(res)

---------------------------------------------------------------------------
(* Shamir and Polynomial, as split_secret uses them *)

\* Shamir::<T, N>::check_params(): the call passes T and N only
check_params(T, N) ==
    IF T < 2 \/ N < T \/ N > 255 THEN "InvalidParameters" ELSE "Ok"

\* rng.fill_bytes(&mut seed): the 32-byte seeds the caller's RNG can deliver
SeedBytes(n) == [i \in 1..SeedLen |-> (n * 37 + i * 11) % 256]
Seeds == {SeedBytes(n) : n \in 1..NumSeeds}

\* F::random(&mut crng): the pos-th scalar of the ChaCha stream seeded with
\* seed (a fixed function of seed and position)
next_scalar(seed, pos) ==
    (seed[1] * 19 + seed[2] * 5 + pos * pos * 31 + pos * 7 + 1) % Q

\* Polynomial::new: a_0 = intercept, a_1..a_{T-1} drawn from the stream
Polynomial(intercept, T, seed, pos) ==
    [i \in 1..T |-> IF i = 1 THEN intercept ELSE next_scalar(seed, pos + i - 2)]

\* Polynomial::evaluate, Horner form
RECURSIVE horner(_, _, _, _)
horner(coefficients, x, idx, acc) ==
    IF idx = 0 THEN acc
    ELSE horner(coefficients, x, idx - 1, FAdd(FMul(acc, x), coefficients[idx]))

evaluate(coefficients, x) == horner(coefficients, x, Len(coefficients), 0)

\* Shamir::<T, N>::get_shares_and_polynomial(secret, &mut crng): the shares
\* (k, P(k)) for k = 1..N and the polynomial P; T - 1 scalars are drawn
get_shares_and_polynomial(secret, T, N, seed, pos) ==
    LET polynomial == Polynomial(secret, T, seed, pos)
    IN [shares |-> [k \in 1..N |->
                      Share(k, to_repr(evaluate(polynomial, FFrom(k))))],
        polynomial |-> polynomial,
        pos |-> pos + (T - 1)]

---------------------------------------------------------------------------
(* State *)

VARIABLES
    pc,             \* position of the running split_secret call
    args,           \* const generics T, N, S and the arguments of the call
    rng_reads,      \* byte counts of the reads made of the caller's rng
    crng,           \* the ChaChaRng: its seed and the scalars drawn so far
    g, t, h,        \* locals of split_secret
    blinding,
    secret_split,   \* (secret_shares, secret_polynomial)
    blind_split,    \* (blind_shares, blinding_polynomial)
    result,         \* what split_secret returned
    held,           \* the secret shares as the shareholders hold them
    tampered,       \* index of the share whose value was replaced, or 0
    vVerifier,      \* FeldmanVerifier of the last verify call
    vShare,         \* share of the last verify call
    vVerdict,       \* what the last verify call returned
    vPc,            \* "ready" or "verified"
    cKind,          \* "field", "group" or "shares": which codec functions run
    cHuman,         \* is_human_readable() of the serializer / deserializer
    cVec,           \* the vector or share array handed to the serializer
    cWire,          \* what the serializer was handed: declared length, elements
    cOutput,        \* the local buffer `output` of the binary branch
    cDecoded,       \* what deserialize_*_vec returned
    cPc             \* "start", "serialized", "received", "round_trip", "deserialized"

dealVars == <<pc, args, rng_reads, crng, g, t, h, blinding, secret_split,
              blind_split, result, held, tampered>>
verifyVars == <<vVerifier, vShare, vVerdict, vPc>>
codecVars == <<cKind, cHuman, cVec, cWire, cOutput, cDecoded, cPc>>
vars == <<dealVars, verifyVars, codecVars>>

NoSplit == [shares |-> << >>, polynomial |-> << >>, pos |-> 0]
NoResult == [status |-> "none"]
NoVerifier == [generator |-> GIdentity, commitments |-> <<GIdentity>>]
NoShare == Share(0, Zeros(FieldBytes))

---------------------------------------------------------------------------
(* Pedersen::split_secret, step by step *)

\* the instantiations <T, N> of Pedersen<T, N>
Params == (0..MaxT) \X (0..MaxN) \cup {<<2, 256>>}
Secrets == {0, 5, 256}
Blindings == {None, Some(11)}
ShareGenerators == {None, Some(GIdentity), Some(5)}
BlindFactorGenerators == {None, Some(7)}
ShareSizes == {0, FieldBytes}

InitDeal ==
    /\ pc = "check_params"
    /\ args \in {[T |-> p[1], N |-> p[2], S |-> sz, secret |-> s, blinding |-> b,
                   share_generator |-> sg, blind_factor_generator |-> bg] :
                     p \in Params, sz \in ShareSizes, s \in Secrets,
                     b \in Blindings, sg \in ShareGenerators,
                     bg \in BlindFactorGenerators}
    /\ rng_reads = << >>
    /\ crng = [seeded |-> FALSE, seed |-> Zeros(SeedLen), pos |-> 0]
    /\ g = GIdentity /\ t = 0 /\ h = GIdentity
    /\ blinding = 0
    /\ secret_split = NoSplit
    /\ blind_split = NoSplit
    /\ result = NoResult
    /\ held = << >>
    /\ tampered = 0

InitVerifyIdle ==
    /\ vVerifier = NoVerifier
    /\ vShare = NoShare
    /\ vVerdict = FALSE
    /\ vPc = "ready"

\* check_params run only after the seed was drawn from the caller's rng
CheckParamsAfterFill ==
    /\ pc = "check_params"
    /\ rng_reads' = Append(rng_reads, SeedLen)
    /\ LET r == check_params(args.T, args.N)
       IN IF r = "Ok"
          THEN /\ pc' = "generators"
               /\ UNCHANGED result
          ELSE /\ pc' = "returned"
               /\ result' = [status |-> "Err", error |-> r]
    /\ \E seed \in Seeds : crng' = [seeded |-> TRUE, seed |-> seed, pos |-> 0]
    /\ UNCHANGED <<args, g, t, h, blinding, secret_split, blind_split, held,
                   tampered>>
    /\ UNCHANGED <<verifyVars, codecVars>>

\* line 127: Shamir::<T, N>::check_params()?
CheckParams ==
    /\ pc = "check_params"
    /\ LET r == check_params(args.T, args.N)
       IN IF r = "Ok"
          THEN /\ pc' = "fill_bytes"
               /\ UNCHANGED result
          ELSE /\ pc' = "returned"
               /\ result' = [status |-> "Err", error |-> r]
    /\ UNCHANGED <<args, rng_reads, crng, g, t, h, blinding, secret_split,
                   blind_split, held, tampered>>
    /\ UNCHANGED <<verifyVars, codecVars>>

\* lines 129-131: one read of SeedLen bytes seeds the stream
seed_from_rng(reads, seed) ==
    [reads |-> Append(reads, SeedLen),
     crng |-> [seeded |-> TRUE, seed |-> seed, pos |-> 0]]

FillBytes ==
    /\ pc = "fill_bytes"
    /\ \E seed \in Seeds :
          LET r == seed_from_rng(rng_reads, seed)
          IN /\ rng_reads' = r.reads
             /\ crng' = r.crng
    /\ pc' = "generators"
    /\ UNCHANGED <<args, g, t, h, blinding, secret_split, blind_split, result,
                   held, tampered>>
    /\ UNCHANGED <<verifyVars, codecVars>>

\* line 135 with the share generator substituted for G::generator()
blind_generator_from_g(blind_factor_generator, gen, scalar) ==
    unwrap_or_else(blind_factor_generator, GMul(gen, scalar))

\* line 135: h = blind_factor_generator.unwrap_or_else(|| G::generator() * t)
blind_generator(blind_factor_generator, gen, scalar) ==
    unwrap_or_else(blind_factor_generator, GMul(GGenerator, scalar))

\* lines 133-135
Generators ==
    /\ pc = "generators"
    /\ g' = unwrap_or_else(args.share_generator, GGenerator)
    /\ t' = next_scalar(crng.seed, crng.pos)
    /\ crng' = [crng EXCEPT !.pos = @ + 1]
    /\ h' = blind_generator(args.blind_factor_generator, g', t')
    /\ pc' = "blinding"
    /\ UNCHANGED <<args, rng_reads, blinding, secret_split, blind_split, result,
                   held, tampered>>
    /\ UNCHANGED <<verifyVars, codecVars>>

\* line 137 drawing the blinding from the caller's rng instead of the stream
choose_blinding_from_caller(supplied, reads, stream) ==
    IF supplied.some
    THEN [blinding |-> supplied.val, reads |-> reads, crng |-> stream]
    ELSE [blinding |-> next_scalar(stream.seed, stream.pos),
          reads |-> Append(reads, FieldBytes),
          crng |-> stream]

\* line 137: blinding.unwrap_or_else(|| F::random(&mut crng))
choose_blinding(supplied, reads, stream) ==
    IF supplied.some
    THEN [blinding |-> supplied.val, reads |-> reads, crng |-> stream]
    ELSE [blinding |-> next_scalar(stream.seed, stream.pos),
          reads |-> reads,
          crng |-> [stream EXCEPT !.pos = @ + 1]]

Blinding ==
    /\ pc = "blinding"
    /\ LET r == choose_blinding(args.blinding, rng_reads, crng)
       IN /\ blinding' = r.blinding
          /\ rng_reads' = r.reads
          /\ crng' = r.crng
    /\ pc' = "secret_shares"
    /\ UNCHANGED <<args, g, t, h, secret_split, blind_split, result, held,
                   tampered>>
    /\ UNCHANGED <<verifyVars, codecVars>>

\* lines 138-139; a Share<S> cannot carry a value that is not S bytes long
SecretShares ==
    /\ pc = "secret_shares"
    /\ IF args.S = FieldBytes
       THEN /\ secret_split' = get_shares_and_polynomial(args.secret, args.T,
                                    args.N, crng.seed, crng.pos)
            /\ crng' = [crng EXCEPT !.pos = secret_split'.pos]
            /\ pc' = "blind_shares"
            /\ UNCHANGED result
       ELSE /\ pc' = "panicked"
            /\ result' = [status |-> "panic"]
            /\ UNCHANGED <<secret_split, crng>>
    /\ UNCHANGED <<args, rng_reads, g, t, h, blinding, blind_split, held,
                   tampered>>
    /\ UNCHANGED <<verifyVars, codecVars>>

\* lines 140-141
BlindShares ==
    /\ pc = "blind_shares"
    /\ blind_split' = get_shares_and_polynomial(blinding, args.T, args.N,
                           crng.seed, crng.pos)
    /\ crng' = [crng EXCEPT !.pos = blind_split'.pos]
    /\ pc' = "commitments"
    /\ UNCHANGED <<args, rng_reads, g, t, h, blinding, secret_split, result,
                   held, tampered>>
    /\ UNCHANGED <<verifyVars, codecVars>>

\* lines 143-151 with the blinding term left out of the Pedersen commitments
commit_without_blinding(gen, hgen, secret_polynomial, blinding_polynomial, T) ==
    [feldman_commitments |-> [i \in 1..T |-> GMul(gen, secret_polynomial[i])],
     pedersen_commitments |-> [i \in 1..T |-> GMul(gen, secret_polynomial[i])]]

\* lines 143-151 committing to the blinding polynomial in the Feldman vector
commit_wrong_polynomial(gen, hgen, secret_polynomial, blinding_polynomial, T) ==
    [feldman_commitments |-> [i \in 1..T |-> GMul(gen, blinding_polynomial[i])],
     pedersen_commitments |->
        [i \in 1..T |-> GAdd(GMul(gen, secret_polynomial[i]),
                             GMul(hgen, blinding_polynomial[i]))]]

\* lines 143-151: the commitment loop
commit(gen, hgen, secret_polynomial, blinding_polynomial, T) ==
    [feldman_commitments |-> [i \in 1..T |-> GMul(gen, secret_polynomial[i])],
     pedersen_commitments |->
        [i \in 1..T |-> GAdd(GMul(gen, secret_polynomial[i]),
                             GMul(hgen, blinding_polynomial[i]))]]

\* lines 143-165
Commitments ==
    /\ pc = "commitments"
    /\ LET c == commit(g, h, secret_split.polynomial, blind_split.polynomial,
                       args.T)
       IN result' = [status |-> "Ok",
                     blinding |-> blinding,
                     blind_shares |-> blind_split.shares,
                     secret_shares |-> secret_split.shares,
                     verifier |->
                        [generator |-> h,
                         commitments |-> c.pedersen_commitments,
                         feldman_verifier |->
                            [generator |-> g,
                             commitments |-> c.feldman_commitments]]]
    /\ held' = secret_split.shares
    /\ pc' = "returned"
    /\ UNCHANGED <<args, rng_reads, crng, g, t, h, blinding, secret_split,
                   blind_split, tampered>>
    /\ UNCHANGED <<verifyVars, codecVars>>

Returned == pc = "returned" /\ result.status = "Ok"

\* a shareholder's value is replaced by the encoding of another field element
TamperOffsets == {1, 128, 256}

Tamper ==
    /\ Returned
    /\ tampered = 0
    /\ \E k \in 1..args.N, d \in TamperOffsets :
          LET y == bytes_to_field(held[k].value).val
          IN /\ held' = [held EXCEPT ![k].value = to_repr(FAdd(y, d))]
             /\ tampered' = k
    /\ UNCHANGED <<pc, args, rng_reads, crng, g, t, h, blinding, secret_split,
                   blind_split, result>>
    /\ UNCHANGED <<verifyVars, codecVars>>

\* a shareholder checks the share it holds against the Feldman verifier
VerifyHeld ==
    /\ Returned
    /\ \E k \in 1..args.N :
          /\ vVerifier' = result.verifier.feldman_verifier
          /\ vShare' = held[k]
          /\ vVerdict' = verify(vVerifier', vShare')
          /\ vPc' = "verified"
    /\ UNCHANGED <<dealVars, codecVars>>

---------------------------------------------------------------------------
(* The serde codec of element vectors (standard.rs) *)

\* F::Repr::default().as_ref().len() / G::Repr::default().as_ref().len()
repr_len(kind) == IF kind = "field" THEN FieldBytes ELSE GroupBytes
\* ff.to_repr() / gg.to_bytes()
repr_of(kind, e) == IF kind = "field" THEN to_repr(e) ELSE to_bytes(e)
\* F::from_repr(repr) / G::from_bytes(&repr)
from_repr_of(kind, r) == IF kind = "field" THEN from_repr(r) ELSE from_bytes(r)
\* bytes_to_field(&bytes) / bytes_to_group(&bytes)
bytes_to(kind, bytes) ==
    IF kind = "field" THEN bytes_to_field(bytes) ELSE bytes_to_group(bytes)

\* hex::encode: two lowercase digits per byte
HexDigit == <<"0", "1", "2", "3", "4", "5", "6", "7", "8", "9",
              "a", "b", "c", "d", "e", "f">>
UpperHexDigit == <<"0", "1", "2", "3", "4", "5", "6", "7", "8", "9",
                   "A", "B", "C", "D", "E", "F">>

hex_encode(bytes) ==
    [i \in 1..(2 * Len(bytes)) |->
        LET b == bytes[(i + 1) \div 2]
        IN IF i % 2 = 1 THEN HexDigit[(b \div 16) + 1] ELSE HexDigit[(b % 16) + 1]]

\* value of one hex digit, either case; -1 when the character is none
hex_val(c) ==
    IF \E n \in 1..16 : HexDigit[n] = c
    THEN (CHOOSE n \in 1..16 : HexDigit[n] = c) - 1
    ELSE IF \E n \in 1..16 : UpperHexDigit[n] = c
         THEN (CHOOSE n \in 1..16 : UpperHexDigit[n] = c) - 1
         ELSE -1

\* hex::decode: Err on odd length or on a character that is no hex digit
hex_decode(str) ==
    IF Len(str) % 2 # 0 \/ \E i \in 1..Len(str) : hex_val(str[i]) < 0
    THEN [ok |-> FALSE, bytes |-> << >>]
    ELSE [ok |-> TRUE,
          bytes |-> [i \in 1..(Len(str) \div 2) |->
                        16 * hex_val(str[2 * i - 1]) + hex_val(str[2 * i])]]

\* uint_zigzag::Uint::to_vec: 7 bits per byte, low group first, bit 7 set on
\* every byte but the last
RECURSIVE uint_to_vec(_)
uint_to_vec(x) ==
    IF x >= 128 THEN <<(x % 128) + 128>> \o uint_to_vec(x \div 128) ELSE <<x>>

\* uint_zigzag::Uint::peek: bytes the varint at the head of value occupies
peek(value) ==
    IF \E j \in 1..Len(value) : j <= MAX_BYTES /\ value[j] < 128
    THEN Some(CHOOSE j \in 1..Len(value) :
                 /\ value[j] < 128
                 /\ \A k \in 1..(j - 1) : value[k] >= 128)
    ELSE None

\* uint_zigzag::Uint::try_from(&[u8])
RECURSIVE uint_value(_, _)
uint_value(value, j) ==
    IF j > Len(value) THEN 0
    ELSE IF value[j] < 128 THEN value[j]
    ELSE (value[j] % 128) + 128 * uint_value(value, j + 1)

uint_try_from(value) ==
    IF peek(value).some THEN Some(uint_value(value, 1)) ELSE None

RECURSIVE concat_reprs(_, _, _)
concat_reprs(kind, v, idx) ==
    IF idx > Len(v) THEN << >>
    ELSE repr_of(kind, v[idx]) \o concat_reprs(kind, v, idx + 1)

\* an element handed to SerializeSeq::serialize_element / delivered by
\* SeqAccess::next_element: a string, a byte, or (delivered only) a null
StrItem(str) == [tag |-> "str", str |-> str, byte |-> 0]
ByteItem(b) == [tag |-> "byte", str |-> << >>, byte |-> b]
NullItem == [tag |-> "null", str |-> << >>, byte |-> 0]

\* serialize_field_vec / serialize_group_vec (lines 35-54 / 56-75): the
\* sequencer is opened with the length hint, handed the hex strings in
\* human-readable form, and ended; the binary branch fills the local vector
\* `output` and hands the sequencer nothing
serialize_vec(kind, v, human) ==
    IF human
    THEN [wire |-> [len |-> Len(v),
                    elements |-> [i \in 1..Len(v) |->
                                     StrItem(hex_encode(repr_of(kind, v[i])))]],
          output |-> << >>]
    ELSE LET output == uint_to_vec(Len(v)) \o concat_reprs(kind, v, 1)
         IN [wire |-> [len |-> Len(v), elements |-> << >>],
             output |-> output]

serialize_field_vec(f, human) == serialize_vec("field", f, human)
serialize_group_vec(gs, human) == serialize_vec("group", gs, human)

DecOk(values) == [status |-> "Ok", values |-> values, error |-> "", at |-> 0]
DecErr(error, at) == [status |-> "Err", values |-> << >>, error |-> error, at |-> at]
DecPanic == [status |-> "panic", values |-> << >>, error |-> "", at |-> 0]

\* visit_seq, human-readable branch (lines 176-181 / 249-254): each element
\* is read as Option<String>; the end of the sequence is an invalid_length
\* error, a null element ends the loop
RECURSIVE visit_seq_human(_, _, _, _)
visit_seq_human(kind, items, p, values) ==
    IF p > Len(items) THEN DecErr("invalid_length", Len(values))
    ELSE IF items[p].tag = "null" THEN DecOk(values)
    ELSE IF items[p].tag # "str" THEN DecErr("invalid_type", Len(values))
    ELSE LET bytes == hex_decode(items[p].str)
         IN IF ~bytes.ok THEN DecErr("invalid_length", Len(values))
            ELSE LET f == bytes_to(kind, bytes.bytes)
                 IN IF ~f.some THEN DecErr("invalid_value", Len(values))
                    ELSE visit_seq_human(kind, items, p + 1,
                                         Append(values, f.val))

\* lines 185-190 / 258-263: one iteration of the loop that fills `buffer`;
\* i is not advanced.  `st` is the loop's state, p the position of the byte
\* that seq.next_element() hands over.
prefix_step(st, items, p) ==
    IF items[p].tag # "byte" THEN [st EXCEPT !.status = "Err", !.next = p]
    ELSE IF st.i >= Len(st.buffer) THEN [st EXCEPT !.status = "panic", !.next = p]
    ELSE LET b2 == [st.buffer EXCEPT ![st.i + 1] = items[p].byte]
         IN [st EXCEPT !.buffer = b2, !.next = p + 1,
                       !.status = IF st.i = MAX_BYTES THEN "Ok" ELSE "loop"]

\* the iterations over items[lo..hi] in order, stopping at the first one that
\* leaves the loop (evaluated by halves to keep the evaluation shallow)
RECURSIVE prefix_loop(_, _, _, _)
prefix_loop(st, items, lo, hi) ==
    IF st.status # "loop" \/ lo > hi THEN st
    ELSE IF lo = hi THEN prefix_step(st, items, lo)
    ELSE LET mid == (lo + hi) \div 2
             half == prefix_loop(st, items, lo, mid)
         IN prefix_loop(half, items, mid + 1, hi)

\* lines 183-190 / 256-263: the loop that fills `buffer`, run until it breaks
\* or seq.next_element() returns None
read_prefix(items, p, buffer, i) ==
    LET st == prefix_loop([status |-> "loop", buffer |-> buffer, next |-> p,
                           i |-> i], items, p, Len(items))
    IN [status |-> IF st.status = "loop" THEN "Ok" ELSE st.status,
        buffer |-> st.buffer, next |-> st.next]

\* lines 205-217 / 278-290: one iteration of the loop that fills `repr` and
\* pushes elements
elements_step(kind, st, items, p, count) ==
    IF items[p].tag # "byte"
    THEN [st EXCEPT !.status = "done",
                    !.out = DecErr("invalid_type", Len(st.values))]
    ELSE IF st.i >= Len(st.repr)
    THEN [st EXCEPT !.status = "done", !.out = DecPanic]
    ELSE LET r2 == [st.repr EXCEPT ![st.i + 1] = items[p].byte]
         IN IF st.i = repr_len(kind)
            THEN LET pt == from_repr_of(kind, r2)
                 IN IF ~pt.some
                    THEN [st EXCEPT !.status = "done",
                                    !.out = DecErr("invalid_value",
                                                   Len(st.values))]
                    ELSE IF Len(st.values) + 1 = count
                    THEN [st EXCEPT !.status = "done",
                                    !.out = DecOk(Append(st.values, pt.val))]
                    ELSE [st EXCEPT !.repr = r2, !.i = 1,
                                    !.values = Append(st.values, pt.val)]
            ELSE [st EXCEPT !.repr = r2, !.i = st.i + 1]

\* the iterations over items[lo..hi] in order, stopping at the first one that
\* leaves the loop
RECURSIVE elements_loop(_, _, _, _, _, _)
elements_loop(kind, st, items, lo, hi, count) ==
    IF st.status # "loop" \/ lo > hi THEN st
    ELSE IF lo = hi THEN elements_step(kind, st, items, lo, count)
    ELSE LET mid == (lo + hi) \div 2
             half == elements_loop(kind, st, items, lo, mid, count)
         IN elements_loop(kind, half, items, mid + 1, hi, count)

\* lines 204-218 / 277-291: the loop that fills `repr` and pushes elements
read_elements(kind, items, p, repr, i, values, count) ==
    LET st == elements_loop(kind, [status |-> "loop", repr |-> repr, i |-> i,
                                   values |-> values, out |-> DecPanic],
                            items, p, Len(items), count)
    IN IF st.status = "loop" THEN DecOk(st.values) ELSE st.out

\* visit_seq, binary branch (lines 183-221 / 256-294)
visit_seq_binary(kind, items) ==
    LET pre == read_prefix(items, 1, Zeros(MAX_BYTES), 0)
    IN IF pre.status = "Err" THEN DecErr("invalid_type", 0)
       ELSE IF pre.status = "panic" THEN DecPanic
       ELSE LET bytes_cnt_size == peek(pre.buffer)
            IN IF ~bytes_cnt_size.some THEN DecErr("invalid_value", 0)
               ELSE LET count == uint_try_from(SubSeq(pre.buffer, 1,
                                                      bytes_cnt_size.val))
                        i == MAX_BYTES - bytes_cnt_size.val
                    IN IF ~count.some THEN DecErr("invalid_value", 0)
                       ELSE IF i > repr_len(kind) THEN DecPanic
                       ELSE LET repr == [j \in 1..repr_len(kind) |->
                                            IF j <= i
                                            THEN pre.buffer[bytes_cnt_size.val + j]
                                            ELSE 0]
                                got == read_elements(kind, items, pre.next, repr,
                                                     i, << >>, count.val)
                            IN IF got.status # "Ok" THEN got
                               ELSE IF Len(got.values) # count.val
                                    THEN DecErr("invalid_length", Len(got.values))
                                    ELSE got

\* deserialize_field_vec / deserialize_group_vec over the elements the
\* deserializer's SeqAccess delivers
deserialize_vec(kind, items, human) ==
    IF human THEN visit_seq_human(kind, items, 1, << >>)
    ELSE visit_seq_binary(kind, items)

deserialize_field_vec(items, human) == deserialize_vec("field", items, human)
deserialize_group_vec(items, human) == deserialize_vec("group", items, human)

---------------------------------------------------------------------------
(* Codec runs *)

FieldSamples == {0, 1, 256}
GroupSamples == {0, 3, 256}

RECURSIVE SeqsUpTo(_, _)
SeqsUpTo(S, n) ==
    IF n = 0 THEN {<< >>}
    ELSE LET shorter == SeqsUpTo(S, n - 1)
         IN shorter \cup {Append(q, e) : q \in {x \in shorter : Len(x) = n - 1},
                                          e \in S}

NoWire == [len |-> 0, elements |-> << >>]
NoDecoded == [status |-> "none", values |-> << >>, error |-> "", at |-> 0]

InitCodec ==
    /\ cKind \in {"field", "group"}
    /\ cHuman \in BOOLEAN
    /\ cVec \in SeqsUpTo(IF cKind = "field" THEN FieldSamples ELSE GroupSamples,
                          MaxLen)
    /\ cWire = NoWire
    /\ cOutput = << >>
    /\ cDecoded = NoDecoded
    /\ cPc = "start"

InitCodecIdle ==
    /\ cKind = "field"
    /\ cHuman = FALSE
    /\ cVec = << >>
    /\ cWire = NoWire
    /\ cOutput = << >>
    /\ cDecoded = NoDecoded
    /\ cPc = "start"

InitDealIdle ==
    /\ pc = "idle"
    /\ args = [T |-> 0, N |-> 0, S |-> 0, secret |-> 0, blinding |-> None,
               share_generator |-> None, blind_factor_generator |-> None]
    /\ rng_reads = << >>
    /\ crng = [seeded |-> FALSE, seed |-> Zeros(SeedLen), pos |-> 0]
    /\ g = GIdentity /\ t = 0 /\ h = GIdentity
    /\ blinding = 0
    /\ secret_split = NoSplit
    /\ blind_split = NoSplit
    /\ result = NoResult
    /\ held = << >>
    /\ tampered = 0

\* the value is serialized through serialize_field_vec / serialize_group_vec
Serialize ==
    /\ cPc = "start"
    /\ LET r == IF cKind = "field" THEN serialize_field_vec(cVec, cHuman)
                ELSE serialize_group_vec(cVec, cHuman)
       IN /\ cWire' = r.wire
          /\ cOutput' = r.output
    /\ cPc' = "serialized"
    /\ UNCHANGED <<cKind, cHuman, cVec, cDecoded>>
    /\ UNCHANGED <<dealVars, verifyVars>>

\* what was emitted is decoded by deserialize_field_vec / deserialize_group_vec.
\* The SeqAccess delivers the emitted elements and then None; a format that
\* trusts the declared length may instead fail in next_element()? when fewer
\* elements than declared were emitted.
Deserialize ==
    /\ cPc = "serialized"
    /\ \/ cDecoded' = IF cKind = "field"
                      THEN deserialize_field_vec(cWire.elements, cHuman)
                      ELSE deserialize_group_vec(cWire.elements, cHuman)
       \/ /\ ~cHuman
          /\ cWire.len > Len(cWire.elements)
          /\ cDecoded' = DecErr("eof", 0)
    /\ cPc' = "deserialized"
    /\ UNCHANGED <<cKind, cHuman, cVec, cWire, cOutput>>
    /\ UNCHANGED <<dealVars, verifyVars>>

\* byte strings a binary deserializer can be handed: a length prefix (or
\* none), some element encodings, canonical or not, and a tail
RawPrefixes == {<< >>, <<0>>, <<1>>, <<2>>}
RawTails == {<< >>, <<0>>, <<5>>, <<128>>}
RawEncodings(kind) ==
    IF kind = "field"
    THEN {to_repr(y) : y \in FieldSamples}
           \cup {[to_repr(1) EXCEPT ![2] = 1],
                 [to_repr(1) EXCEPT ![FieldBytes] = 7]}
    ELSE {to_bytes(y) : y \in GroupSamples}
           \cup {[to_bytes(3) EXCEPT ![1] = 9],
                 [to_bytes(3) EXCEPT ![GroupBytes - 1] = 1]}

RECURSIVE Flatten(_, _)
Flatten(chunks, idx) ==
    IF idx > Len(chunks) THEN << >>
    ELSE chunks[idx] \o Flatten(chunks, idx + 1)

RawInputs(kind) ==
    {[i \in 1..Len(bytes) |-> ByteItem(bytes[i])] :
        bytes \in {pre \o Flatten(es, 1) \o tl :
                      pre \in RawPrefixes,
                      es \in SeqsUpTo(RawEncodings(kind), MaxLen),
                      tl \in RawTails}}

InitDecode ==
    /\ cKind \in {"field", "group"}
    /\ cHuman = FALSE
    /\ cVec = << >>
    /\ cWire \in {[len |-> Len(items), elements |-> items] :
                     items \in RawInputs(cKind)}
    /\ cOutput = << >>
    /\ cDecoded = NoDecoded
    /\ cPc = "received"

\* deserialize_field_vec / deserialize_group_vec run on the received bytes
DeserializeReceived ==
    /\ cPc = "received"
    /\ cDecoded' = IF cKind = "field"
                   THEN deserialize_field_vec(cWire.elements, cHuman)
                   ELSE deserialize_group_vec(cWire.elements, cHuman)
    /\ cPc' = "deserialized"
    /\ UNCHANGED <<cKind, cHuman, cVec, cWire, cOutput>>
    /\ UNCHANGED <<dealVars, verifyVars>>

---------------------------------------------------------------------------
(* The share arrays of a PedersenResult (pedersen.rs) *)

\* serialize_shares_array (lines 53-62): a tuple of N is opened, which
\* writes no length, and every share is handed over in array order
serialize_shares_array(shares, N) ==
    [len |-> N,
     prefix |-> << >>,
     elements |-> [k \in 1..N |-> shares[k]]]

\* Share's own Deserialize, run by seq.next_element()?: an identifier byte
\* of 0 is rejected
deserialize_share(item) == IF item.identifier = 0 THEN None ELSE Some(item)

\* the loop of visit_seq returning the array as filled so far when an
\* element is missing
RECURSIVE visit_seq_shares_partial(_, _, _, _)
visit_seq_shares_partial(items, i, arr, N) ==
    IF i = N THEN DecOk(arr)
    ELSE IF i >= Len(items) THEN DecOk(arr)
    ELSE LET p == deserialize_share(items[i + 1])
         IN IF ~p.some THEN DecErr("custom", i)
            ELSE visit_seq_shares_partial(items, i + 1,
                                          [arr EXCEPT ![i + 1] = p.val], N)

\* ShareArrayVisitor::visit_seq (lines 76-87): slot i takes the next
\* element; a missing element is invalid_length(i)
RECURSIVE visit_seq_shares(_, _, _, _)
visit_seq_shares(items, i, arr, N) ==
    IF i = N THEN DecOk(arr)
    ELSE IF i >= Len(items) THEN DecErr("invalid_length", i)
    ELSE LET p == deserialize_share(items[i + 1])
         IN IF ~p.some THEN DecErr("custom", i)
            ELSE visit_seq_shares(items, i + 1,
                                  [arr EXCEPT ![i + 1] = p.val], N)

\* deserialize_shares_array (lines 64-91): d.deserialize_tuple(N, visitor)
\* over an array of N default shares
deserialize_shares_array(items, N) ==
    visit_seq_shares(items, 0, [k \in 1..N |-> NoShare], N)

ShareSamples == {Share(1, to_repr(5)), Share(2, to_repr(0)),
                 Share(255, to_repr(256))}

\* share arrays [Share<S>; N] to serialize, or the elements a deserializer
\* delivers for a tuple of N: any number of them, default shares included
InitShares ==
    /\ cKind = "shares"
    /\ cHuman = FALSE
    /\ cOutput = << >>
    /\ cDecoded = NoDecoded
    /\ \/ /\ cPc = "start"
          /\ cVec \in SeqsUpTo(ShareSamples, MaxN)
          /\ cWire = [len |-> Len(cVec), prefix |-> << >>, elements |-> << >>]
       \/ /\ cPc = "received"
          /\ cVec = << >>
          /\ cWire \in {[len |-> n, prefix |-> << >>, elements |-> items] :
                           n \in 0..MaxN,
                           items \in SeqsUpTo(ShareSamples \cup {NoShare},
                                              MaxN + 1)}

\* the array is serialized through serialize_shares_array
SerializeShares ==
    /\ cPc = "start"
    /\ cWire' = serialize_shares_array(cVec, Len(cVec))
    /\ cPc' = "serialized"
    /\ UNCHANGED <<cKind, cHuman, cVec, cOutput, cDecoded>>
    /\ UNCHANGED <<dealVars, verifyVars>>

\* deserialize_shares_array runs on what was emitted or received
DeserializeShares ==
    /\ cPc \in {"serialized", "received"}
    /\ cDecoded' = deserialize_shares_array(cWire.elements, cWire.len)
    /\ cPc' = IF cPc = "serialized" THEN "round_trip" ELSE "deserialized"
    /\ UNCHANGED <<cKind, cHuman, cVec, cWire, cOutput>>
    /\ UNCHANGED <<dealVars, verifyVars>>

---------------------------------------------------------------------------
(* Free-standing verification *)

VerifierGenerators == {GIdentity, GGenerator}
CommitmentSamples == {0, 3, 21}
ShareIdentifiers == {0, 1, 2, 255}
ShareValues ==
    {to_repr(y) : y \in {0, 1, 2, 7, 8, 256}}
      \cup {[to_repr(1) EXCEPT ![2] = 1],
            [to_repr(0) EXCEPT ![FieldBytes] = 255],
            [i \in 1..FieldBytes |-> 255]}

InitVerify ==
    /\ vVerifier \in {[generator |-> gen, commitments |-> c] :
                         gen \in VerifierGenerators,
                         c \in SeqsUpTo(CommitmentSamples, MaxCommitments)
                                  \ {<< >>}}
    /\ vShare \in {Share(id, v) : id \in ShareIdentifiers, v \in ShareValues}
    /\ vVerdict = FALSE
    /\ vPc = "ready"

\* FeldmanVerifier::verify is called on the chosen verifier and share
Verify ==
    /\ vPc = "ready"
    /\ vVerdict' = verify(vVerifier, vShare)
    /\ vPc' = "verified"
    /\ UNCHANGED <<vVerifier, vShare>>
    /\ UNCHANGED <<dealVars, codecVars>>

---------------------------------------------------------------------------
(* Specifications *)

\* dealing, tampering and verification of dealt shares
Init == InitDeal /\ InitVerifyIdle /\ InitCodecIdle
Next ==
    \/ CheckParams
    \/ FillBytes
    \/ Generators
    \/ Blinding
    \/ SecretShares
    \/ BlindShares
    \/ Commitments
    \/ Tamper
    \/ VerifyHeld
Spec == Init /\ [][Next]_vars

\* verification of arbitrary shares against arbitrary verifiers
InitV == InitDealIdle /\ InitVerify /\ InitCodecIdle
NextV == Verify
SpecVerify == InitV /\ [][NextV]_vars

\* the codec
InitC == InitDealIdle /\ InitVerifyIdle /\ InitCodec
NextC == Serialize \/ Deserialize
SpecCodec == InitC /\ [][NextC]_vars

\* the binary decoder on arbitrary received bytes
InitD == InitDealIdle /\ InitVerifyIdle /\ InitDecode
NextD == DeserializeReceived
SpecDecode == InitD /\ [][NextD]_vars

\* the share arrays of a PedersenResult
InitS == InitDealIdle /\ InitVerifyIdle /\ InitShares
NextS == SerializeShares \/ DeserializeShares
SpecShares == InitS /\ [][NextS]_vars

---------------------------------------------------------------------------
(* Properties of the dealer and the verifier *)

RECURSIVE FPow(_, _)
FPow(x, n) == IF n = 0 THEN FOne ELSE FMul(x, FPow(x, n - 1))

RECURSIVE GSum(_, _, _)
\* c_0 + c_1 * x + ... + c_{T-1} * x^(T-1), each power computed on its own
GSum(commitments, x, idx) ==
    IF idx > Len(commitments) THEN GIdentity
    ELSE GAdd(GMul(commitments[idx], FPow(x, idx - 1)),
              GSum(commitments, x, idx + 1))

FeldmanOf(r) == r.verifier.feldman_verifier

\* C1: every one of the N secret shares split_secret returns is accepted by
\* the Feldman verifier embedded in the same result, and a shareholder that
\* verifies an untouched share gets true.
C1_DealtSharesVerify ==
    Returned =>
        /\ Len(result.secret_shares) = args.N
        /\ \A k \in 1..args.N :
              verify(FeldmanOf(result), result.secret_shares[k])
        /\ (vPc = "verified" /\ tampered = 0) => vVerdict

C1_Witness ==
    /\ Returned
    /\ args.T = 3 /\ args.N = 3
    /\ args.share_generator = Some(5)
    /\ tampered = 0
    /\ vPc = "verified" /\ vVerdict
    /\ vShare = result.secret_shares[3]

\* C2: in the result, Feldman commitment i is g * a_i and Pedersen
\* commitment i is g * a_i + h * b_i, with g the Feldman verifier's
\* generator, h the Pedersen verifier's generator and a_i, b_i the
\* coefficients of the secret and blinding polynomials; commitment 0 is
\* g * secret, resp. g * secret + h * blinding for the returned blinding.
C2_Commitments ==
    Returned =>
        LET fv == FeldmanOf(result)
            pv == result.verifier
            a == secret_split.polynomial
            b == blind_split.polynomial
        IN /\ Len(fv.commitments) = args.T
           /\ Len(pv.commitments) = args.T
           /\ Len(a) = args.T /\ Len(b) = args.T
           /\ \A i \in 1..args.T :
                 /\ fv.commitments[i] = GMul(fv.generator, a[i])
                 /\ pv.commitments[i] =
                       GAdd(GMul(fv.generator, a[i]), GMul(pv.generator, b[i]))
           /\ fv.commitments[1] = GMul(fv.generator, args.secret)
           /\ pv.commitments[1] =
                 GAdd(GMul(fv.generator, args.secret),
                      GMul(pv.generator, result.blinding))
           /\ args.blinding.some => result.blinding = args.blinding.val

C2_Witness ==
    /\ Returned
    /\ args.T = 3
    /\ args.secret = 5
    /\ ~args.blinding.some
    /\ ~args.blind_factor_generator.some
    /\ result.verifier.generator # GIdentity
    /\ result.blinding # 0
    /\ result.verifier.commitments[1] # FeldmanOf(result).commitments[1]

\* C3: verify returns true exactly when the share value decodes to a field
\* element y and g * y = c_0 + sum of c_i * x^i, x being the identifier
\* lifted into F; when the value does not decode it returns false.
C3_VerifyExact ==
    vPc = "verified" =>
        LET y == from_repr(vShare.value)
            x == FFrom(vShare.identifier)
        IN /\ vVerdict <=>
                 /\ y.some
                 /\ GMul(vVerifier.generator, y.val)
                       = GSum(vVerifier.commitments, x, 1)
           /\ ~y.some => ~vVerdict

C3_Witness ==
    /\ vPc = "verified"
    /\ vVerdict
    /\ Len(vVerifier.commitments) = 2
    /\ vVerifier.generator # GIdentity
    /\ vVerifier.commitments[1] # GIdentity
    /\ vVerifier.commitments[2] # GIdentity
    /\ vShare.identifier = 255

\* C4: for a dealt bundle whose share generator is not the identity,
\* replacing the value of one dealt share by the encoding of any other field
\* element makes verify return false for it, while every untouched share of
\* the bundle is still accepted.
C4_TamperDetected ==
    (Returned /\ FeldmanOf(result).generator # GIdentity) =>
        /\ \A k \in 1..args.N :
              IF k = tampered
              THEN /\ held[k].identifier = result.secret_shares[k].identifier
                   /\ held[k].value # result.secret_shares[k].value
                   /\ ~verify(FeldmanOf(result), held[k])
              ELSE /\ held[k] = result.secret_shares[k]
                   /\ verify(FeldmanOf(result), held[k])
        /\ tampered = 0 =>
              \A k \in 1..args.N, y \in F :
                 to_repr(y) # held[k].value =>
                    ~verify(FeldmanOf(result), Share(k, to_repr(y)))
        /\ (vPc = "verified" /\ vShare = held[vShare.identifier]) =>
              (vVerdict <=> vShare.identifier # tampered)

C4_Witness ==
    /\ Returned
    /\ FeldmanOf(result).generator # GIdentity
    /\ tampered = 2
    /\ args.N = 3
    /\ vPc = "verified"
    /\ vShare = held[2]
    /\ ~vVerdict

AfterSeed == {"generators", "blinding", "secret_shares", "blind_shares",
              "commitments", "panicked"}

\* C7: in a successful run the caller's rng is read exactly once, for 32
\* bytes, before any scalar is produced; t, the blinding when absent and the
\* non-constant coefficients of both polynomials are the consecutive scalars
\* of the stream seeded with those bytes.
C7_RngDiscipline ==
    /\ crng.pos > 0 => (crng.seeded /\ rng_reads = <<SeedLen>>)
    /\ pc \in AfterSeed => rng_reads = <<SeedLen>>
    /\ Returned =>
          LET drawnBlinding == IF args.blinding.some THEN 0 ELSE 1
              a == secret_split.polynomial
              b == blind_split.polynomial
          IN /\ rng_reads = <<SeedLen>>
             /\ crng.seed \in Seeds
             /\ t = next_scalar(crng.seed, 0)
             /\ ~args.blinding.some =>
                   result.blinding = next_scalar(crng.seed, 1)
             /\ \A i \in 2..args.T :
                   /\ a[i] = next_scalar(crng.seed, drawnBlinding + i - 1)
                   /\ b[i] = next_scalar(crng.seed,
                                         drawnBlinding + (args.T - 1) + i - 1)
             /\ crng.pos = 1 + drawnBlinding + 2 * (args.T - 1)

C7_Witness ==
    /\ Returned
    /\ args.T = 3
    /\ ~args.blinding.some
    /\ ~args.blind_factor_generator.some
    /\ rng_reads = <<SeedLen>>
    /\ crng.pos = 6

BadParams == args.T < 2 \/ args.N < args.T \/ args.N > 255

NothingComputed ==
    /\ rng_reads = << >>
    /\ ~crng.seeded /\ crng.pos = 0
    /\ secret_split = NoSplit /\ blind_split = NoSplit
    /\ held = << >>

C9_Original ==
    Returned =>
        IF args.blind_factor_generator.some
        THEN result.verifier.generator = args.blind_factor_generator.val
        ELSE result.verifier.generator = GMul(FeldmanOf(result).generator, t)

\* C9 amended: without a blind_factor_generator, h is G::generator() * t,
\* the canonical generator times the first scalar of the stream, whatever
\* share_generator is; with one, h equals it.
C9_BlindGenerator ==
    Returned =>
        /\ t = next_scalar(crng.seed, 0)
        /\ FeldmanOf(result).generator
              = unwrap_or_else(args.share_generator, GGenerator)
        /\ IF args.blind_factor_generator.some
           THEN result.verifier.generator = args.blind_factor_generator.val
           ELSE result.verifier.generator = GMul(GGenerator, t)

C9_Witness ==
    /\ Returned
    /\ ~args.blind_factor_generator.some
    /\ args.share_generator = Some(5)
    /\ result.verifier.generator = GMul(GGenerator, t)
    /\ result.verifier.generator # GMul(FeldmanOf(result).generator, t)

---------------------------------------------------------------------------
(* Properties of the codec *)

LowerHex == {HexDigit[n] : n \in 1..16}

\* C5 as stated: in binary form, decoding what serialize_field_vec /
\* serialize_group_vec emitted for a vector v succeeds and returns exactly v,
\* non-empty vectors included.
C5_BinaryRoundTrip ==
    (cPc = "deserialized" /\ ~cHuman) =>
        /\ cDecoded.status = "Ok"
        /\ cDecoded.values = cVec

\* C6 as stated: in human-readable form the encoding of v is the sequence
\* of the lowercase hex strings of the elements' canonical bytes, and
\* decoding that sequence, which ends after the last string, succeeds and
\* returns exactly v.
C6_HexRoundTrip ==
    cHuman =>
        /\ cPc # "start" =>
              /\ Len(cWire.elements) = Len(cVec)
              /\ \A k \in 1..Len(cVec) :
                    LET e == cWire.elements[k]
                    IN /\ e.tag = "str"
                       /\ Len(e.str) = 2 * repr_len(cKind)
                       /\ \A i \in 1..Len(e.str) : e.str[i] \in LowerHex
                       /\ hex_decode(e.str).bytes = repr_of(cKind, cVec[k])
        /\ cPc = "deserialized" =>
              /\ cDecoded.status = "Ok"
              /\ cDecoded.values = cVec

\* C10 as stated: in binary form the serializer is handed, for a vector of
\* n elements, the varint encoding of n followed by the n canonical
\* encodings in vector order, no byte omitted.
C10_BinaryEmission ==
    (cPc # "start" /\ ~cHuman) =>
        LET n == Len(cVec)
            L == repr_len(cKind)
            prefix == uint_to_vec(n)
        IN /\ Len(cWire.elements) = Len(prefix) + n * L
           /\ \A i \in 1..Len(prefix) :
                 cWire.elements[i] = ByteItem(prefix[i])
           /\ \A k \in 1..n, j \in 1..L :
                 cWire.elements[Len(prefix) + (k - 1) * L + j]
                    = ByteItem(repr_of(cKind, cVec[k])[j])

ReceivedBytes == [i \in 1..Len(cWire.elements) |-> cWire.elements[i].byte]

\* the length prefix at the head of the received bytes, and what follows it
PrefixSize == peek(ReceivedBytes)
DeclaredCount == uint_value(ReceivedBytes, 1)
Payload == SubSeq(ReceivedBytes, PrefixSize.val + 1, Len(ReceivedBytes))
CompleteEncodings == Len(Payload) \div repr_len(cKind)
Chunk(k) == SubSeq(Payload, (k - 1) * repr_len(cKind) + 1, k * repr_len(cKind))

\* the received bytes are not a prefix n followed by n canonical encodings
Malformed ==
    \/ ~PrefixSize.some
    \/ CompleteEncodings # DeclaredCount
    \/ \E k \in 1..CompleteEncodings : ~from_repr_of(cKind, Chunk(k)).some

\* C11 as stated: the binary decoders read the length prefix from the first
\* bytes of the input and succeed only with exactly the declared number of
\* elements; whenever the complete canonical encodings after the prefix
\* differ in number from the declared count, or an element is not canonical,
\* the result is an error value, never a vector and never a panic.
C11_BinaryDecodeStrict ==
    cPc = "deserialized" =>
        /\ cDecoded.status # "panic"
        /\ cDecoded.status = "Ok" =>
              /\ PrefixSize.some
              /\ Len(cDecoded.values) = DeclaredCount
        /\ Malformed => cDecoded.status = "Err"

\* the delivered elements up to the first missing or rejected one are shares
Delivered(n) ==
    \A k \in 1..n : k <= Len(cWire.elements)
                        /\ deserialize_share(cWire.elements[k]).some

\* C12: a share array is encoded as exactly its N shares in array order
\* with no length prefix; deserialize_shares_array either returns an array
\* whose k-th slot is the k-th decoded share for every k (no slot keeps the
\* default share), or, when fewer than N shares are delivered, returns
\* invalid_length with the index of the first missing share and no array.
C12_SharesArray ==
    /\ cPc \in {"serialized", "round_trip"} =>
          /\ cWire.prefix = << >>
          /\ cWire.len = Len(cVec)
          /\ Len(cWire.elements) = Len(cVec)
          /\ \A k \in 1..Len(cVec) : cWire.elements[k] = cVec[k]
    /\ cPc = "round_trip" => cDecoded = DecOk(cVec)
    /\ cPc \in {"round_trip", "deserialized"} =>
          /\ cDecoded.status \in {"Ok", "Err"}
          /\ cDecoded.status = "Ok" =>
                /\ Len(cDecoded.values) = cWire.len
                /\ Delivered(cWire.len)
                /\ \A k \in 1..cWire.len :
                      /\ cDecoded.values[k] = cWire.elements[k]
                      /\ cDecoded.values[k] # NoShare
          /\ cDecoded.status = "Err" => cDecoded.values = << >>
          /\ (Len(cWire.elements) < cWire.len /\ Delivered(Len(cWire.elements)))
                => cDecoded = DecErr("invalid_length", Len(cWire.elements))

C12_Witness ==
    /\ cPc = "deserialized"
    /\ cWire.len = 3
    /\ Len(cWire.elements) = 2
    /\ cDecoded = DecErr("invalid_length", 2)

====
